---- MODULE Spec2Model ----
(***************************************************************************)
(* Model of src/src/main.rs: startup (image load, watcher, surface and     *)
(* texture creation, first upload) and the winit event-loop closure        *)
(* (hot-reload poll, Resized / CloseRequested / RedrawRequested arms,      *)
(* AboutToWait).  One action is one whole invocation of the closure.       *)
(***************************************************************************)
EXTENDS Integers, Sequences, FiniteSets, TLC

(* ------------------------------ bounds --------------------------------- *)

\* largest width / height carried by a Resized event (0 = minimised window)
MaxSize == 1

\* most notifications the watcher channel holds at once (mpsc is unbounded)
MaxQueue == 2

(* --------------------------- images and files -------------------------- *)

Red  == <<255, 0, 0, 255>>
Blue == <<0, 0, 255, 255>>

\* RGBA8 pixel buffer, row-major, no padding: a red and blue checkerboard
\* (all red or all blue for a single pixel), so that neighbouring pixels
\* and neighbouring rows differ
PixelData(w, h, p) ==
    [i \in 1..(4 * w * h) |->
        LET k == (i - 1) \div 4
            c == ((i - 1) % 4) + 1
        IN  IF ((k % w) + (k \div w) + p) % 2 = 0 THEN Red[c] ELSE Blue[c]]

\* sizes of the images found at img_path (the decoders reject a zero
\* width or height)
ImageSizes == {<<1, 1>>, <<2, 2>>}

\* what Path::exists / image::open find at img_path
NoFile  == [exists |-> FALSE, valid |-> FALSE, width |-> 0, height |-> 0, data |-> <<>>]
Garbage == [exists |-> TRUE,  valid |-> FALSE, width |-> 0, height |-> 0, data |-> <<>>]
ImageFile(w, h, p) ==
    [exists |-> TRUE, valid |-> TRUE, width |-> w, height |-> h,
     data |-> PixelData(w, h, p)]

ImageFiles == {ImageFile(s[1], s[2], p) : s \in ImageSizes, p \in {0, 1}}
Files == {NoFile, Garbage} \cup ImageFiles

NoImage == [width |-> 0, height |-> 0, data |-> <<>>]

\* load_image: Err when the path does not exist or image::open fails,
\* otherwise the decoded RGBA8 buffer with its dimensions
load_image(f) ==
    IF ~f.exists THEN [ok |-> FALSE, img |-> NoImage]
    ELSE IF ~f.valid THEN [ok |-> FALSE, img |-> NoImage]
    ELSE [ok |-> TRUE,
          img |-> [width |-> f.width, height |-> f.height, data |-> f.data]]

(* ------------------------------- texture ------------------------------- *)

ZeroRow(w) == [i \in 1..(4 * w) |-> 0]

\* device.create_texture: a width x height RGBA8 texture, zero-initialised
create_texture(w, h) ==
    [width |-> w, height |-> h, rows |-> [r \in 1..h |-> ZeroRow(w)]]

\* bytes a linear copy of ext_w x ext_h texels reads from the data
RequiredBytes(offset, bytes_per_row, ext_w, ext_h) ==
    IF ext_w = 0 \/ ext_h = 0 THEN 0
    ELSE offset + bytes_per_row * (ext_h - 1) + 4 * ext_w

\* queue.write_texture at origin 0: row r of the extent is read from the
\* data at offset + r * bytes_per_row.  A copy that does not fit the
\* texture or the data is a validation error, which the default
\* uncaptured-error handler turns into a panic; nothing is written then.
queue_write_texture(tex, data, offset, bytes_per_row, rows_per_image, ext_w, ext_h) ==
    IF \/ ext_w > tex.width
       \/ ext_h > tex.height
       \/ bytes_per_row < 4 * ext_w
       \/ rows_per_image < ext_h
       \/ RequiredBytes(offset, bytes_per_row, ext_w, ext_h) > Len(data)
    THEN [ok |-> FALSE, tex |-> tex]
    ELSE [ok |-> TRUE,
          tex |-> [tex EXCEPT !.rows =
                     [r \in 1..tex.height |->
                        IF r > ext_h THEN tex.rows[r]
                        ELSE [i \in 1..(4 * tex.width) |->
                                IF i > 4 * ext_w THEN tex.rows[r][i]
                                ELSE data[offset + (r - 1) * bytes_per_row + i]]]]]

\* TexelCopyBufferLayout and Extent3d handed to queue.write_texture
Layout(bytes_per_row, rows_per_image, ext_w, ext_h) ==
    [bytes_per_row |-> bytes_per_row, rows_per_image |-> rows_per_image,
     extent |-> <<ext_w, ext_h>>]

\* no queue.write_texture call was made
NoLayout == Layout(0, 0, 0, 0)

\* mutant: a failed load clears the texture
write_texture_ClearOnErr(tex, f, height, width) ==
    LET l == load_image(f) IN
    IF l.ok
    THEN LET w == queue_write_texture(tex, l.img.data, 0, 4 * width, height,
                                      width, height)
         IN  [loadOk |-> TRUE, wrote |-> w.ok, panicked |-> ~w.ok, tex |-> w.tex,
              layout |-> Layout(4 * width, height, width, height)]
    ELSE [loadOk |-> FALSE, wrote |-> FALSE, panicked |-> FALSE,
          tex |-> create_texture(tex.width, tex.height), layout |-> NoLayout]

\* mutant: the row stride is one pixel, whatever the width
write_texture_StrideOnePixel(tex, f, height, width) ==
    LET l == load_image(f) IN
    IF l.ok
    THEN LET w == queue_write_texture(tex, l.img.data, 0, 4, height,
                                      width, height)
         IN  [loadOk |-> TRUE, wrote |-> w.ok, panicked |-> ~w.ok, tex |-> w.tex,
              layout |-> Layout(4, height, width, height)]
    ELSE [loadOk |-> FALSE, wrote |-> FALSE, panicked |-> FALSE, tex |-> tex,
          layout |-> NoLayout]

\* write_texture(queue, texture, img_path, height, width)
write_texture(tex, f, height, width) ==
    LET l == load_image(f) IN
    IF l.ok
    THEN LET w == queue_write_texture(tex, l.img.data, 0, 4 * width, height,
                                      width, height)
         IN  [loadOk |-> TRUE, wrote |-> w.ok, panicked |-> ~w.ok, tex |-> w.tex,
              layout |-> Layout(4 * width, height, width, height)]
    ELSE [loadOk |-> FALSE, wrote |-> FALSE, panicked |-> FALSE, tex |-> tex,
          layout |-> NoLayout]

\* the texture contents that hold exactly the pixel buffer of an image
TextureOf(img) ==
    [width |-> img.width, height |-> img.height,
     rows |-> [r \in 1..img.height |->
                 [i \in 1..(4 * img.width) |->
                     img.data[(r - 1) * 4 * img.width + i]]]]

(* ------------------------------- surface ------------------------------- *)

\* mutant: the dimension is stored as received
Clamp1_NoClamp(n) == n

\* u32::max(1)
Clamp1(n) == IF n < 1 THEN 1 ELSE n

\* the Resized arm: the new (config.width, config.height)
ResizedConfig(w, h) == <<Clamp1(w), Clamp1(h)>>

(* -------------------------------- state -------------------------------- *)

VARIABLES
    pc,             \* where the process is: start, picked, loaded, watching,
                    \* Running, Closing (exit() called), exited, crashed
    file,           \* what is on disk at img_path
    chan,           \* the watcher channel (tx -> rx), oldest message first
    width,          \* let (width, height) = (img.width(), img.height())
    height,
    texture,        \* the GPU texture
    config,         \* <<config.width, config.height>>
    surface,        \* the configuration last applied by surface.configure
    redrawPending,  \* window.request_redraw() called, RedrawRequested not yet
                    \* delivered
    lastResized,    \* size carried by the most recent Resized event
    last,           \* what the most recent invocation of the closure did
    caps,           \* surface.get_capabilities(&adapter)
    surface_format, \* caps.formats[0]
    surface_alpha_mode, \* caps.alpha_modes[0]
    uniform_buffer, \* contents of the "Params Buffer"
    bind_group,     \* the "texture_bind_group"
    panic           \* the panic that ended the process, "none" otherwise

\* the objects main builds once, before event_loop.run
gpu == <<caps, surface_format, surface_alpha_mode, bind_group>>

vars == <<pc, file, chan, width, height, texture, config, surface,
          redrawPending, lastResized, last, caps, surface_format,
          surface_alpha_mode, uniform_buffer, bind_group, panic>>

NoTexture == [width |-> 0, height |-> 0, rows |-> <<>>]

\* the reload block did not run, or found the channel empty
NoReload(ch, tex) ==
    [recv |-> FALSE, loadOk |-> FALSE, wrote |-> FALSE, panicked |-> FALSE,
     redraw |-> FALSE, chan |-> ch, tex |-> tex, layout |-> NoLayout]

\* record of one invocation of the closure (or of the startup upload):
\* the event, whether exit() had been called before, whether the channel
\* held a message, what the reload block did (rb), whether the arm of the
\* event ran to its end and whether a frame was presented; layout is the
\* copy layout the reload block used, ops the GPU calls of the redraw arm
Tick(ev, closing, had, rb, inner, presented) ==
    [ev |-> ev, closing |-> closing, had |-> had,
     recv |-> rb.recv, loadOk |-> rb.loadOk, wrote |-> rb.wrote,
     reloadRedraw |-> rb.redraw, inner |-> inner, presented |-> presented,
     layout |-> rb.layout, ops |-> <<>>]

(* ------------------------- surface capabilities ------------------------ *)

Formats    == <<"Bgra8UnormSrgb", "Rgba8UnormSrgb">>
AlphaModes == <<"Opaque", "PreMultiplied">>

\* nothing queried yet; also what an adapter that cannot present to the
\* surface reports
NoCapabilities == [formats |-> <<>>, alpha_modes |-> <<>>]

\* what surface.get_capabilities can return: each list is filled or empty
Capabilities ==
    {[formats |-> f, alpha_modes |-> a] :
        f \in {<<>>, Formats}, a \in {<<>>, AlphaModes}}

IndexPanic == "index out of bounds: the len is 0 but the index is 0"

\* list[0] on a Vec: the first element, or the bounds-check panic
Index0(list) ==
    IF list = <<>> THEN [ok |-> FALSE, value |-> "none", panic |-> IndexPanic]
    ELSE [ok |-> TRUE, value |-> list[1], panic |-> "none"]

\* let surface_format = caps.formats[0];
\* let surface_alpha_mode = caps.alpha_modes[0];
SelectFormat(c) ==
    LET f == Index0(c.formats)
        a == Index0(c.alpha_modes)
    IN  IF ~f.ok THEN [ok |-> FALSE, format |-> "none", alpha_mode |-> "none",
                       panic |-> f.panic]
        ELSE [ok |-> a.ok, format |-> f.value, alpha_mode |-> a.value,
              panic |-> a.panic]

(* ---------------------- uniforms and the bind group -------------------- *)

\* let params = Params { time: 0.0, artifact_amplifier: 1.0, .. }
Params ==
    [time |-> 0, artifact_amplifier |-> 1, crt_amount_adjusted |-> 1,
     bloom_fac |-> 1]

\* the buffer before create_buffer_init
NoBuffer ==
    [time |-> 0, artifact_amplifier |-> 0, crt_amount_adjusted |-> 0,
     bloom_fac |-> 0]

\* device.create_bind_group: binding 0 the texture view, 1 the sampler,
\* 2 the uniform buffer; resources are named by their labels
create_bind_group(view, sampler, buffer) ==
    [label |-> "texture_bind_group", texture_view |-> view,
     sampler |-> sampler, buffer |-> buffer]

NoBindGroup ==
    [label |-> "none", texture_view |-> "none", sampler |-> "none",
     buffer |-> "none"]

(* ---------------------------- the redraw arm --------------------------- *)

AcquirePanic == "Failed to acquire next swap chain texture"

\* one call on the surface, encoder, render pass or queue
GpuCall(op, arg) == [op |-> op, arg |-> arg]

\* wgpu::Color { r: 0.1, g: 0.2, b: 0.3, a: 1.0 }, in tenths
ClearColor == <<1, 2, 3, 10>>

\* mutant: the frame is presented before the command buffer is submitted
RedrawArm_PresentBeforeSubmit(acquireOk, bg, ub) ==
    IF ~acquireOk
    THEN [ok |-> FALSE, panic |-> AcquirePanic, uniform_buffer |-> ub,
          ops |-> <<GpuCall("get_current_texture", <<"Err">>)>>]
    ELSE [ok |-> TRUE, panic |-> "none", uniform_buffer |-> ub,
          ops |-> <<GpuCall("get_current_texture", <<"Ok">>),
                    GpuCall("begin_render_pass", ClearColor),
                    GpuCall("set_pipeline", <<>>),
                    GpuCall("set_bind_group", <<0, bg>>),
                    GpuCall("set_vertex_buffer", <<0>>),
                    GpuCall("set_index_buffer", <<"Uint16">>),
                    GpuCall("draw_indexed", <<0, 6, 0, 0, 1>>),
                    GpuCall("end_render_pass", <<>>),
                    GpuCall("present", <<>>),
                    GpuCall("submit", <<>>)>>]

\* mutant: the arm advances Params.time and writes the uniform buffer
RedrawArm_WritesTime(acquireOk, bg, ub) ==
    IF ~acquireOk
    THEN [ok |-> FALSE, panic |-> AcquirePanic, uniform_buffer |-> ub,
          ops |-> <<GpuCall("get_current_texture", <<"Err">>)>>]
    ELSE [ok |-> TRUE, panic |-> "none",
          uniform_buffer |-> [ub EXCEPT !.time = 1],
          ops |-> <<GpuCall("get_current_texture", <<"Ok">>),
                    GpuCall("begin_render_pass", ClearColor),
                    GpuCall("set_pipeline", <<>>),
                    GpuCall("set_bind_group", <<0, bg>>),
                    GpuCall("set_vertex_buffer", <<0>>),
                    GpuCall("set_index_buffer", <<"Uint16">>),
                    GpuCall("draw_indexed", <<0, 6, 0, 0, 1>>),
                    GpuCall("end_render_pass", <<>>),
                    GpuCall("submit", <<>>),
                    GpuCall("present", <<>>)>>]

\* the WindowEvent::RedrawRequested arm: get_current_texture().expect(..),
\* one render pass (the block ends it), queue.submit, frame.present;
\* draw_indexed(0..6, 0, 0..1) is <<0, 6, 0, 0, 1>>
RedrawArm(acquireOk, bg, ub) ==
    IF ~acquireOk
    THEN [ok |-> FALSE, panic |-> AcquirePanic, uniform_buffer |-> ub,
          ops |-> <<GpuCall("get_current_texture", <<"Err">>)>>]
    ELSE [ok |-> TRUE, panic |-> "none", uniform_buffer |-> ub,
          ops |-> <<GpuCall("get_current_texture", <<"Ok">>),
                    GpuCall("begin_render_pass", ClearColor),
                    GpuCall("set_pipeline", <<>>),
                    GpuCall("set_bind_group", <<0, bg>>),
                    GpuCall("set_vertex_buffer", <<0>>),
                    GpuCall("set_index_buffer", <<"Uint16">>),
                    GpuCall("draw_indexed", <<0, 6, 0, 0, 1>>),
                    GpuCall("end_render_pass", <<>>),
                    GpuCall("submit", <<>>),
                    GpuCall("present", <<>>)>>]

(* -------------------------------- init --------------------------------- *)

Init ==
    /\ pc = "start"
    /\ file \in Files
    /\ chan = <<>>
    /\ width = 0
    /\ height = 0
    /\ texture = NoTexture
    /\ config = <<0, 0>>
    /\ surface = <<0, 0>>
    /\ redrawPending = FALSE
    /\ lastResized = <<0, 0>>
    /\ last = Tick("none", FALSE, FALSE, NoReload(<<>>, NoTexture), FALSE, FALSE)
    /\ caps = NoCapabilities
    /\ surface_format = "none"
    /\ surface_alpha_mode = "none"
    /\ uniform_buffer = NoBuffer
    /\ bind_group = NoBindGroup
    /\ panic = "none"

(* ------------------------------- startup ------------------------------- *)

\* pick_image_file: a path, or exit(1) when the dialog is cancelled
PickFile ==
    /\ pc = "start"
    /\ \E selected \in BOOLEAN : pc' = IF selected THEN "picked" ELSE "exited"
    /\ UNCHANGED <<file, chan, width, height, texture, config, surface,
                   redrawPending, lastResized, last, gpu, uniform_buffer,
                   panic>>

\* let img = load_image(&img_path).expect(..); let (width, height) = ..
LoadInitial ==
    /\ pc = "picked"
    /\ LET l == load_image(file) IN
        /\ pc' = IF l.ok THEN "loaded" ELSE "crashed"
        /\ panic' = IF l.ok THEN panic ELSE "Failed to load image"
        /\ width' = l.img.width
        /\ height' = l.img.height
    /\ UNCHANGED <<file, chan, texture, config, surface, redrawPending,
                   lastResized, last, gpu, uniform_buffer>>

\* channel(), Watcher::new(..).expect(..), watcher.watch(..).expect(..)
StartWatcher ==
    /\ pc = "loaded"
    /\ pc' = IF file.exists THEN "watching" ELSE "crashed"
    /\ panic' = IF file.exists THEN panic ELSE "Failed to watch file"
    /\ UNCHANGED <<file, chan, width, height, texture, config, surface,
                   redrawPending, lastResized, last, gpu, uniform_buffer>>

\* mutant: the redraw is requested only after a successful write
Upload_RedrawOnSuccess(ch, f, tex, h, w) ==
    LET r == write_texture(tex, f, h, w) IN
    [recv |-> TRUE, loadOk |-> r.loadOk, wrote |-> r.wrote,
     panicked |-> r.panicked, redraw |-> r.wrote, chan |-> ch,
     tex |-> r.tex, layout |-> r.layout]

\* a write_texture call as the reload block sees it; request_redraw() on
\* the next line runs unless write_texture panicked
Upload(ch, f, tex, h, w) ==
    LET r == write_texture(tex, f, h, w) IN
    [recv |-> TRUE, loadOk |-> r.loadOk, wrote |-> r.wrote,
     panicked |-> r.panicked, redraw |-> ~r.panicked, chan |-> ch,
     tex |-> r.tex, layout |-> r.layout]

ValidationPanic == "wgpu error: Validation Error"

\* window, instance, surface, adapter, device; get_capabilities and the
\* choice of format and alpha mode; surface.configure with the image
\* size; create_texture; write_texture; sampler, uniform buffer, bind
\* group .. render pipeline; event_loop.run
Setup ==
    /\ pc = "watching"
    /\ \E c \in Capabilities :
        LET sel == SelectFormat(c)
            u == [Upload(chan, file, create_texture(width, height), height, width)
                  EXCEPT !.recv = FALSE, !.redraw = FALSE]
        IN  /\ caps' = c
            /\ surface_format' = sel.format
            /\ surface_alpha_mode' = sel.alpha_mode
            /\ IF ~sel.ok
               THEN /\ pc' = "crashed"
                    /\ panic' = sel.panic
                    /\ last' = Tick("Startup", FALSE, FALSE,
                                    NoReload(chan, texture), FALSE, FALSE)
                    /\ UNCHANGED <<config, surface, lastResized, texture,
                                   uniform_buffer, bind_group>>
               ELSE /\ config' = <<width, height>>
                    /\ surface' = <<width, height>>
                    /\ lastResized' = <<width, height>>
                    /\ texture' = u.tex
                    /\ pc' = IF u.panicked THEN "crashed" ELSE "Running"
                    /\ panic' = IF u.panicked THEN ValidationPanic ELSE panic
                    /\ last' = Tick("Startup", FALSE, FALSE, u, ~u.panicked,
                                    FALSE)
                    /\ uniform_buffer' =
                          IF u.panicked THEN uniform_buffer ELSE Params
                    /\ bind_group' =
                          IF u.panicked THEN bind_group
                          ELSE create_bind_group("image_texture",
                                                 "image_sampler",
                                                 "Params Buffer")
    /\ UNCHANGED <<file, chan, width, height, redrawPending>>

(* ----------------------------- environment ----------------------------- *)

\* the message the notify thread sends for a change; the closure only
\* prints it.  It is tagged with the replacement image when that image
\* fits the texture, so that the n-th notification's image can be named.
Notification(f, w, h) ==
    IF f.valid /\ f.width = w /\ f.height = h THEN f ELSE NoFile

\* the file at img_path is replaced, removed or half-written (a file that
\* changes before the first load is another initial file); once the
\* watcher is registered the notify thread pushes a message into tx
FileChange ==
    /\ pc \in {"loaded", "watching", "Running", "Closing"}
    /\ \E f \in Files :
        /\ file' = f
        /\ IF pc = "loaded"
           THEN f # file /\ chan' = chan
           ELSE /\ Len(chan) < MaxQueue
                /\ chan' = Append(chan, Notification(f, width, height))
    /\ UNCHANGED <<pc, width, height, texture, config, surface,
                   redrawPending, lastResized, last, gpu, uniform_buffer,
                   panic>>

(* ------------------------- the event-loop closure ---------------------- *)

\* mutant: the message is received but the file is not reloaded
ReloadBlock_NoReload(ch, f, tex, h, w) ==
    IF ch = <<>> THEN NoReload(ch, tex)
    ELSE [NoReload(Tail(ch), tex) EXCEPT !.recv = TRUE, !.redraw = TRUE]

\* mutant: the reload creates a new texture of the new image's size
ReloadBlock_Recreate(ch, f, tex, h, w) ==
    IF ch = <<>> THEN NoReload(ch, tex)
    ELSE Upload(Tail(ch), f, create_texture(f.width, f.height), f.height,
                f.width)

\* if let Ok(msg) = rx.try_recv() { write_texture(..); request_redraw(); .. }
ReloadBlock(ch, f, tex, h, w) ==
    IF ch = <<>> THEN NoReload(ch, tex)
    ELSE Upload(Tail(ch), f, tex, h, w)

\* mutant: no event polls the channel
PollsWatcher_Never(kind) == FALSE

\* mutant: every event polls the channel
PollsWatcher_EveryEvent(kind) == TRUE

\* which events reach the reload block: window events of this window only
PollsWatcher(kind) == kind = "WindowEvent"

\* mutant: config is updated but surface.configure is not called
ResizedArm_NoConfigure(cfg, surf, w, h) ==
    [config |-> ResizedConfig(w, h), surface |-> surf, redraw |-> TRUE,
     width |-> width, height |-> height]

\* mutant: the arm assigns the captured width and height instead of
\* declaring its own
ResizedArm_AssignsCaptured(cfg, surf, w, h) ==
    [config |-> ResizedConfig(w, h), surface |-> ResizedConfig(w, h),
     redraw |-> TRUE, width |-> Clamp1(w), height |-> Clamp1(h)]

\* WindowEvent::Resized(physical_size) arm; `let width`, `let height`
\* declare locals of the arm, the captured width and height (the fields
\* of the result) stay as they were
ResizedArm(cfg, surf, w, h) ==
    [config |-> ResizedConfig(w, h), surface |-> ResizedConfig(w, h),
     redraw |-> TRUE, width |-> width, height |-> height]

\* the loop dispatches events while it runs; exit() only marks the loop as
\* exiting, the closure itself never looks at that mark
Dispatching == pc \in {"Running", "Closing"}

\* one invocation of the closure for Event::WindowEvent { event, window_id }
WindowEvent(wev, size, acquireOk) ==
    /\ Dispatching
    /\ \E rb \in {IF PollsWatcher("WindowEvent")
                   THEN ReloadBlock(chan, file, texture, height, width)
                   ELSE NoReload(chan, texture)} :
       LET closing == pc = "Closing"
           had == chan # <<>>
           pending == IF wev = "RedrawRequested" THEN FALSE ELSE redrawPending
       IN
       /\ chan' = rb.chan
       /\ texture' = rb.tex
       /\ lastResized' = IF wev = "Resized" THEN size ELSE lastResized
       /\ IF rb.panicked
          THEN /\ pc' = "crashed"
               /\ panic' = ValidationPanic
               /\ last' = Tick(wev, closing, had, rb, FALSE, FALSE)
               /\ UNCHANGED <<config, surface, redrawPending, width, height,
                              uniform_buffer>>
          ELSE CASE wev = "Resized" ->
                    LET a == ResizedArm(config, surface, size[1], size[2]) IN
                    /\ config' = a.config
                    /\ surface' = a.surface
                    /\ width' = a.width
                    /\ height' = a.height
                    /\ redrawPending' = (pending \/ rb.redraw \/ a.redraw)
                    /\ pc' = pc
                    /\ last' = Tick(wev, closing, had, rb, TRUE, FALSE)
                    /\ UNCHANGED <<uniform_buffer, panic>>
                 [] wev = "CloseRequested" ->
                    /\ pc' = "Closing"
                    /\ redrawPending' = (pending \/ rb.redraw)
                    /\ last' = Tick(wev, closing, had, rb, TRUE, FALSE)
                    /\ UNCHANGED <<config, surface, width, height,
                                   uniform_buffer, panic>>
                 [] wev = "RedrawRequested" ->
                    LET a == RedrawArm(acquireOk, bind_group, uniform_buffer) IN
                    /\ pc' = IF a.ok THEN pc ELSE "crashed"
                    /\ panic' = a.panic
                    /\ uniform_buffer' = a.uniform_buffer
                    /\ redrawPending' = (pending \/ rb.redraw)
                    /\ last' = [Tick(wev, closing, had, rb, a.ok, a.ok)
                                EXCEPT !.ops = a.ops]
                    /\ UNCHANGED <<config, surface, width, height>>
                 [] OTHER ->
                    /\ pc' = pc
                    /\ redrawPending' = (pending \/ rb.redraw)
                    /\ last' = Tick(wev, closing, had, rb, TRUE, FALSE)
                    /\ UNCHANGED <<config, surface, width, height,
                                   uniform_buffer, panic>>
    /\ UNCHANGED <<file, gpu>>

Resized ==
    \E w \in 0..MaxSize, h \in 0..MaxSize : WindowEvent("Resized", <<w, h>>, TRUE)

CloseRequested == WindowEvent("CloseRequested", <<0, 0>>, TRUE)

\* get_current_texture() succeeds or fails (Outdated, Lost, Timeout, ..)
RedrawRequested ==
    \E acquireOk \in BOOLEAN : WindowEvent("RedrawRequested", <<0, 0>>, acquireOk)

\* any other window event: the `_ => {}` arm of the inner match
OtherWindowEvent == WindowEvent("Other", <<0, 0>>, TRUE)

\* one invocation of the closure for an event that is not a window event
NonWindowEvent(ev, requests) ==
    /\ Dispatching
    /\ \E rb \in {IF PollsWatcher(ev)
                   THEN ReloadBlock(chan, file, texture, height, width)
                   ELSE NoReload(chan, texture)} :
           /\ chan' = rb.chan
           /\ texture' = rb.tex
           /\ pc' = IF rb.panicked THEN "crashed" ELSE pc
           /\ panic' = IF rb.panicked THEN ValidationPanic ELSE panic
           /\ redrawPending' = IF rb.panicked THEN redrawPending
                               ELSE (redrawPending \/ rb.redraw \/ requests)
           /\ last' = Tick(ev, pc = "Closing", chan # <<>>, rb, ~rb.panicked,
                           FALSE)
    /\ UNCHANGED <<file, width, height, config, surface, lastResized, gpu,
                   uniform_buffer>>

\* mutant: AboutToWait does nothing
AboutToWait_NoRequest == NonWindowEvent("AboutToWait", FALSE)

\* Event::AboutToWait => window.request_redraw()
AboutToWait == NonWindowEvent("AboutToWait", TRUE)

\* NewEvents, DeviceEvent, Resumed, ..: the outer `_ => {}` arm
OtherEvent == NonWindowEvent("OtherEvent", FALSE)

\* after exit() the loop finishes, hands LoopExiting to the closure (outer
\* `_ => {}` arm) and run() returns
LoopExiting ==
    /\ pc = "Closing"
    /\ pc' = "exited"
    /\ last' = Tick("LoopExiting", TRUE, chan # <<>>, NoReload(chan, texture),
                    TRUE, FALSE)
    /\ UNCHANGED <<file, chan, width, height, texture, config, surface,
                   redrawPending, lastResized, gpu, uniform_buffer, panic>>

Next ==
    \/ PickFile
    \/ LoadInitial
    \/ StartWatcher
    \/ Setup
    \/ FileChange
    \/ Resized
    \/ CloseRequested
    \/ RedrawRequested
    \/ OtherWindowEvent
    \/ AboutToWait
    \/ OtherEvent
    \/ LoopExiting

Spec == Init /\ [][Next]_vars

\* ControlFlow::Poll: the loop never waits, so it keeps reaching
\* AboutToWait; and winit delivers RedrawRequested to a window for which
\* request_redraw() was called
RedrawDelivered == redrawPending /\ RedrawRequested

LiveSpec == Spec /\ WF_vars(AboutToWait) /\ WF_vars(RedrawDelivered)

TypeOK ==
    /\ pc \in {"start", "picked", "loaded", "watching", "Running", "Closing",
               "exited", "crashed"}
    /\ file \in Files
    /\ redrawPending \in BOOLEAN
    /\ Len(chan) <= MaxQueue

(* ------------------------------- claims -------------------------------- *)

WindowEvents == {"Resized", "CloseRequested", "RedrawRequested", "Other"}

\* the reload block of the last invocation ended in a wgpu validation panic
ReloadPanicked == last.recv /\ last.loadOk /\ ~last.wrote

\* C1: once CloseRequested has moved the scheduler to Closing, no later
\* invocation of the closure presents a frame, receives a notification
\* (hot-reload) or reconfigures the surface.
C1_NothingAfterClose ==
    last.closing =>
        /\ ~last.presented
        /\ ~last.recv
        /\ ~(last.ev = "Resized" /\ last.inner)

\* startup got as far as building the SurfaceConfiguration
SurfaceConfigured == last.ev # "none" /\ panic # IndexPanic

\* C2 as stated: the surface configuration is at least 1 x 1 once it
\* exists, and a frame is only presented while the surface is configured
\* to exactly the size carried by the most recent Resized event (the
\* initial size before any).
C2_SurfaceEqualsResized ==
    /\ SurfaceConfigured => config[1] >= 1 /\ config[2] >= 1
    /\ last.presented => surface = lastResized

\* C2 amended: a frame is only presented while the surface is configured
\* to the most recent Resized size with each dimension raised to at least 1.
C2_SurfaceEqualsClampedResized ==
    /\ SurfaceConfigured => config[1] >= 1 /\ config[2] >= 1
    /\ last.presented =>
        /\ surface = config
        /\ surface = <<IF lastResized[1] >= 1 THEN lastResized[1] ELSE 1,
                       IF lastResized[2] >= 1 THEN lastResized[2] ELSE 1>>

\* a frame was presented after a Resized event that carried a zero width
C2_Witness ==
    /\ last.presented
    /\ lastResized[1] = 0
    /\ surface = <<1, lastResized[2]>>
    /\ surface # <<width, height>>

\* C3: when the Resized(w, h) arm has run, config is (max(w,1), max(h,1)),
\* that configuration is the one applied to the surface, and a redraw is
\* requested.
C3_ResizedClamps ==
    (last.ev = "Resized" /\ last.inner) =>
        /\ config[1] = (IF lastResized[1] >= 1 THEN lastResized[1] ELSE 1)
        /\ config[2] = (IF lastResized[2] >= 1 THEN lastResized[2] ELSE 1)
        /\ surface = config
        /\ redrawPending

\* Resized(w, 0) with w >= 1 was handled and changed the configuration
C3_Witness ==
    /\ last.ev = "Resized"
    /\ last.inner
    /\ lastResized[1] >= 1
    /\ lastResized[2] = 0
    /\ config = <<lastResized[1], 1>>
    /\ config # <<width, height>>
    /\ redrawPending

(* --------------------------- hot-reload claims ------------------------- *)

\* this step is an invocation of the closure that took a message
ReloadStep == Dispatching /\ chan # <<>> /\ chan' = Tail(chan)

\* every pending notification is for a replacement image of the texture's size
AllSameSize == \A i \in 1..Len(chan) : chan[i] # NoFile

Decoded(f) == [width |-> f.width, height |-> f.height, data |-> f.data]

C5_MismatchRejected ==
    [][(ReloadStep /\ file.valid /\ (file.width # width \/ file.height # height)) =>
          /\ texture' = texture
          /\ ~last'.wrote
          /\ (last'.ev # "RedrawRequested" => pc' # "crashed")]_vars

\* C6: a notification handled while the file is missing or undecodable
\* issues no write, leaves the texture as it was, and the arm of the event
\* still runs (the process goes on; only CloseRequested leaves Running).
C6_FailedLoadNonFatal ==
    [][(ReloadStep /\ (~file.exists \/ ~file.valid)) =>
          /\ texture' = texture
          /\ ~last'.wrote
          /\ ~last'.loadOk
          /\ (last'.ev # "RedrawRequested" =>
                /\ last'.inner
                /\ pc' = IF last'.ev = "CloseRequested" THEN "Closing" ELSE pc)]_vars

\* a failed reload was handled by a running scheduler whose texture still
\* holds an image
C6_Witness ==
    /\ last.recv
    /\ ~last.loadOk
    /\ last.inner
    /\ pc = "Running"
    /\ texture.rows[1][4] = 255

\* C7 as stated: a reload whose load failed does not request a redraw.
C7_NoRedrawAfterFailedLoad ==
    (last.recv /\ ~last.loadOk) => ~last.reloadRedraw

\* C7 amended: a reload requests a redraw whenever write_texture returns,
\* whether the load succeeded or failed.
C7_RedrawAfterAnyReload ==
    (last.recv /\ ~ReloadPanicked) => (last.reloadRedraw /\ redrawPending)

\* a failed reload left a redraw requested
C7_Witness ==
    /\ last.recv
    /\ ~last.loadOk
    /\ last.ev = "Other"
    /\ last.reloadRedraw
    /\ redrawPending

\* C8 as stated: whatever event is dispatched while Running, a pending
\* notification is received and reloaded and a redraw is requested.
C8_EveryEventPolls ==
    (last.ev \in WindowEvents \cup {"AboutToWait", "OtherEvent"}
        /\ ~last.closing /\ last.had /\ ~ReloadPanicked) =>
        (last.recv /\ last.reloadRedraw)

\* C8 amended: only window events poll the channel, one message per event;
\* a received message is reloaded and a redraw requested; AboutToWait and
\* the other events leave the channel as it is.
C8_WindowEventsPoll ==
    /\ [](/\ (last.ev \in WindowEvents /\ last.had) => last.recv
          /\ (last.recv /\ ~ReloadPanicked) => (last.reloadRedraw /\ redrawPending)
          /\ last.ev \in {"AboutToWait", "OtherEvent", "LoopExiting"} =>
                (~last.recv /\ ~last.wrote))
    /\ [][Len(chan') < Len(chan) =>
            (chan' = Tail(chan) /\ last'.ev \in WindowEvents /\ last'.recv)]_vars

\* AboutToWait was handled with a notification pending and left it there
C8_Witness ==
    /\ last.ev = "AboutToWait"
    /\ last.had
    /\ ~last.recv
    /\ chan # <<>>

\* C9: the event loop is entered only after the startup upload loaded the
\* image and wrote it to the texture; a load failure at startup is fatal.
C9_StartupLoadFailureFatal ==
    (last.ev = "Startup" /\ pc = "Running") => (last.loadOk /\ last.wrote)

\* this step ran write_texture: the startup upload or a reload
UploadStep == (pc = "watching" /\ pc' # pc /\ panic' # IndexPanic) \/ ReloadStep

\* C10: an upload of an image of the texture's size succeeds and leaves
\* the texture holding the pixel buffer byte for byte, row r at bytes
\* 4*W*r .. 4*W*(r+1)-1 of the buffer.
C10_UploadExact ==
    [][(UploadStep /\ file.valid /\ file.width = width /\ file.height = height) =>
          /\ last'.wrote
          /\ texture'.width = width /\ texture'.height = height
          /\ \A r \in 1..height : \A i \in 1..(4 * width) :
                texture'.rows[r][i] = file.data[4 * width * (r - 1) + i]]_vars

\* a two-row image was uploaded and the texture holds it
C10_Witness ==
    /\ last.wrote
    /\ height = 2
    /\ file.valid /\ file.width = width /\ file.height = height
    /\ texture.rows[1] # texture.rows[2]
    /\ texture = TextureOf(Decoded(file))

\* C11: once the capabilities were queried, an empty format list or an
\* empty alpha-mode list ends initialization with a descriptive error and
\* not with the out-of-bounds panic of the index; with both lists filled
\* the first entry of each is the one selected.
C11_EmptyCapabilitiesDescriptive ==
    last.ev # "none" =>
        IF caps.formats = <<>> \/ caps.alpha_modes = <<>>
        THEN pc = "crashed" /\ panic # "none" /\ panic # IndexPanic
        ELSE /\ surface_format = caps.formats[1]
             /\ surface_alpha_mode = caps.alpha_modes[1]

OpNames(ops) == [i \in 1..Len(ops) |-> ops[i].op]

IsFrameStep(name) ==
    name \in {"get_current_texture", "begin_render_pass", "draw_indexed",
              "end_render_pass", "submit", "present"}

\* C12: an invocation that reaches the RedrawRequested arm either
\* acquires the frame, opens one render pass clearing to (0.1, 0.2, 0.3,
\* 1.0), issues one indexed draw of indices 0..6, closes the pass, submits
\* and presents, each once and in this order; or fails to acquire the
\* frame, and then the process has terminated with nothing drawn,
\* submitted or presented.
C12_RedrawSequence ==
    (last.ev = "RedrawRequested" /\ ~ReloadPanicked) =>
        IF last.presented
        THEN /\ SelectSeq(OpNames(last.ops), IsFrameStep) =
                  <<"get_current_texture", "begin_render_pass", "draw_indexed",
                    "end_render_pass", "submit", "present">>
             /\ \A i \in 1..Len(last.ops) :
                  /\ last.ops[i].op = "begin_render_pass" =>
                        last.ops[i].arg = ClearColor
                  /\ last.ops[i].op = "draw_indexed" =>
                        last.ops[i].arg = <<0, 6, 0, 0, 1>>
        ELSE /\ pc = "crashed"
             /\ panic = AcquirePanic
             /\ OpNames(last.ops) = <<"get_current_texture">>

C12_Witness ==
    /\ last.ev = "RedrawRequested"
    /\ last.presented
    /\ pc = "Running"
    /\ Len(last.ops) = 10
    /\ last.ops[Len(last.ops)].op = "present"

\* C13: every AboutToWait leaves a redraw requested, and in an execution
\* that stays Running for ever (no CloseRequested, no panic) a
\* RedrawRequested is handled and its frame presented again and again:
\* at any time, later the process is not Running or has just presented.
C13_RedrawInfinitelyOften ==
    /\ [](last.ev = "AboutToWait" => redrawPending)
    /\ []<>(pc # "Running" \/ (last.ev = "RedrawRequested" /\ last.presented))

C13_Witness ==
    /\ pc = "Running"
    /\ last.ev = "AboutToWait"
    /\ redrawPending
    /\ ~last.recv

\* the bind group a presented frame was drawn with
BoundGroups(ops) ==
    {ops[i].arg[2] : i \in {j \in 1..Len(ops) : ops[j].op = "set_bind_group"}}

\* a step creates the texture only at startup and never changes the size
\* of the texture or the bind group once they exist
TextureKept ==
    /\ (texture # NoTexture) =>
          (texture'.width = texture.width /\ texture'.height = texture.height)
    /\ (texture = NoTexture /\ texture' # NoTexture) => (pc = "watching")
    /\ (bind_group # NoBindGroup) => (bind_group' = bind_group)

\* C14: the texture is allocated once, at startup, with the width and
\* height of the initial image, and no reload, resize or redraw changes
\* its size; the bind group is built once, refers to the view of that
\* texture, and is the one every presented frame was drawn with.
C14_TextureFixed ==
    /\ [](texture # NoTexture =>
            texture.width = width /\ texture.height = height)
    /\ [](last.presented =>
            /\ BoundGroups(last.ops) = {bind_group}
            /\ bind_group = create_bind_group("image_texture",
                                              "image_sampler", "Params Buffer"))
    /\ [][TextureKept]_vars

C14_Witness ==
    /\ last.ev = "RedrawRequested"
    /\ last.presented
    /\ last.recv
    /\ last.wrote
    /\ config # <<width, height>>
    /\ texture.width = 2
    /\ texture.height = 2

\* the uniform buffer is written at startup only
UniformsKept == (uniform_buffer' # uniform_buffer) => (pc = "watching")

\* C15: once the bind group exists the uniform buffer holds time = 0 and
\* artifact_amplifier = crt_amount_adjusted = bloom_fac = 1, the bind
\* group every frame is drawn with refers to that buffer, and no
\* invocation of the closure writes the buffer.
C15_UniformsDefault ==
    /\ [](bind_group # NoBindGroup =>
            /\ uniform_buffer = [time |-> 0, artifact_amplifier |-> 1,
                                 crt_amount_adjusted |-> 1, bloom_fac |-> 1]
            /\ bind_group.buffer = "Params Buffer")
    /\ [][UniformsKept]_vars

C15_Witness ==
    /\ last.ev = "RedrawRequested"
    /\ last.presented
    /\ last.closing
    /\ lastResized # <<width, height>>
    /\ uniform_buffer = Params

\* the captured width and height are set by the initial load only, and a
\* reload in an invocation that is not a Resized leaves the surface
\* configuration as it was
SizesKept ==
    /\ (<<width, height>>' # <<width, height>>) => (pc = "picked")
    /\ (ReloadStep /\ last'.ev # "Resized") =>
          (config' = config /\ surface' = surface)

\* C16: whatever Resized events came before, a hot-reload that decodes the
\* file copies with the width and height of the initial image (those the
\* texture was allocated with) and a row stride of 4 * that width, not
\* with the size of the surface configuration; and the reload does not
\* change the surface configuration.
C16_UploadIgnoresResize ==
    /\ []((last.recv /\ last.loadOk) =>
            last.layout = Layout(4 * texture.width, texture.height,
                                 texture.width, texture.height))
    /\ [][SizesKept]_vars

C16_Witness ==
    /\ last.recv
    /\ last.wrote
    /\ last.ev # "Resized"
    /\ lastResized = <<0, 1>>
    /\ config = <<1, 1>>
    /\ last.layout = Layout(8, 2, 2, 2)

\* one step takes at most one message out of the channel
AtMostOneReceived == Len(chan') >= Len(chan) - 1

\* C17: an invocation of the closure takes at most one notification; an
\* invocation for a window event that finds the channel empty goes on to
\* the arm of its event without receiving; and in an execution that stays
\* Running no notification stays in the channel for ever: either the
\* channel is empty again and again, or the oldest notification is
\* received (and a reload attempted) again and again.
C17_NotificationsReceived ==
    /\ [][AtMostOneReceived]_vars
    /\ []((last.ev \in {"Resized", "CloseRequested", "Other"} /\ ~last.had) =>
            (last.inner /\ ~last.recv))
    /\ \/ []<>(pc # "Running" \/ chan = <<>>)
       \/ []<><<ReloadStep>>_vars

C17_Witness ==
    /\ pc = "Running"
    /\ last.ev = "RedrawRequested"
    /\ last.recv
    /\ last.presented
    /\ chan # <<>>

====
